---- MODULE Spec2Model ----
(***************************************************************************)
(* Streaming voice-activity segmentation: VADIterator and its subclass     *)
(* FixedVADIterator (silero_vad_mindspore/utils.py).                       *)
(*                                                                         *)
(* One instance is modelled.  Its class and configuration are fixed by     *)
(* Init (the state __init__ leaves); the actions are the public calls      *)
(* __call__ and reset_states.  The neural scorer self.model is external:   *)
(* its result is an input of the call, drawn from Probs.                   *)
(*                                                                         *)
(* Units.  Probabilities and the threshold are in hundredths (0.5 = 50).   *)
(* min_silence_samples and speech_pad_samples are Python floats            *)
(* sampling_rate * ms / 1000; they are kept as the exact numerator         *)
(* sampling_rate * ms, i.e. in thousandths of a sample, so that the        *)
(* division and the later int() are computed, not assumed exact.           *)
(* Positions returned in seconds are rounded to one decimal and kept in    *)
(* tenths of a second.                                                     *)
(***************************************************************************)
EXTENDS Integers, Sequences, FiniteSets, TLC

\* ------------------------------------------------------------------ bounds
\* Calls are accepted while the samples supplied since the last reset stay
\* within MaxSupplied and fewer than MaxEvents events were returned.
MaxSupplied == 2560
MaxEvents == 3

\* --------------------------------------------------------- program constants
MinChunk == 512
Margin == 15
Milli == 1000

SupportedRates == {8000, 16000}

\* Mutant: the check of line 49 missing.
Supported_any(sr) == TRUE

\* Line 49: sampling_rate in [8000, 16000]
Supported(sr) == sr \in SupportedRates

\* ------------------------------------------------------------ input domains
Classes == {"VADIterator", "FixedVADIterator"}
SamplingRates == SupportedRates \cup {22050, 44100}
Thresholds == {50, 80}
SilenceMs == {0, 60}
PadMs == {0, 30}
Probs == {10, 40, 70, 90}
Lens == {256, 512}

\* An audio chunk: ok = it is a tensor or mindspore.Tensor(x) accepts it;
\* rows = 0 for a 1-D chunk of n samples, rows = 1 for a 2-D chunk [1, n].
Chunks == [ok : BOOLEAN, rows : {0, 1}, n : Lens]

VARIABLES
    cls,                  \* the instance's class
    threshold,            \* self.threshold (hundredths)
    sampling_rate,        \* self.sampling_rate
    min_silence_samples,  \* self.min_silence_samples (thousandths of a sample)
    speech_pad_samples,   \* self.speech_pad_samples (thousandths of a sample)
    triggered,            \* self.triggered
    temp_end,             \* self.temp_end (0 = unset)
    current_sample,       \* self.current_sample
    buffer,               \* self.buffer: [len, ok] (FixedVADIterator only)
    constructed,          \* __init__ returned an instance (FALSE: it raised the ValueError of line 50)
    events,               \* history: events returned since the last reset
    supplied,             \* history: samples of the chunks of the calls that returned since the last reset
    fed,                  \* history: samples of the chunks VADIterator.__call__ accepted since the last reset
    run,                  \* history: the current run of low-probability chunks
    last,                 \* history: the last operation, its inputs, pre-state and result
    failed,               \* history: a call of the Adapter raised since the last reset
    silence,              \* history: where the current silence of the open segment began
    spec_sm               \* the Segmenter state machine of the specification, run on the same chunks

cfgvars == <<cls, threshold, sampling_rate, min_silence_samples, speech_pad_samples,
            constructed>>
statevars == <<triggered, temp_end, current_sample, buffer>>
histvars == <<events, supplied, fed, run, last, failed, silence, spec_sm>>
vars == <<cfgvars, statevars, histvars>>

\* ------------------------------------------------------------ return values
None == [kind |-> "none", value |-> 0, unit |-> "samples"]
TypeError == [kind |-> "TypeError", value |-> 0, unit |-> "samples"]

IsEvent(r) == r.kind \in {"start", "end"}

\* int(v) of a float v >= or < 0 given in thousandths: truncation toward zero.
PyInt(v) == IF v >= 0 THEN v \div Milli ELSE -((-v) \div Milli)

\* round(v / sampling_rate, 1), v in thousandths of a sample, in tenths of a
\* second.  On an exact tie the result depends on the binary representation
\* of the quotient: either neighbour (up chooses).
RoundSeconds(v, up) ==
    LET den == Milli * sampling_rate
        num == 10 * v
        q == num \div den
        r == num % den
    IN  IF 2 * r < den THEN q
        ELSE IF 2 * r > den THEN q + 1
        ELSE IF up THEN q + 1 ELSE q

\* {'start': ...} / {'end': ...}
Event(kind, v, return_seconds, up) ==
    IF return_seconds
    THEN [kind |-> kind, value |-> RoundSeconds(v, up), unit |-> "tenths"]
    ELSE [kind |-> kind, value |-> PyInt(v), unit |-> "samples"]

\* ------------------------------------------------------------ instance state
EmptyBuffer == [len |-> 0, ok |-> TRUE]

Self ==
    [triggered |-> triggered, temp_end |-> temp_end,
     current_sample |-> current_sample, buffer |-> buffer]

\* Mutant: the test taken as "is not None", which 0 passes.
Truthy_not_none(v) == TRUE

\* Python truthiness of self.temp_end: 0 is "unset".
Truthy(v) == v # 0

\* Whether the chunk passes lines 71-75: it is a tensor or can be made one.
Castable(x) == x.ok

\* x.dim()
Dim(x) == IF x.rows > 0 THEN 2 ELSE 1

\* len(x): the size of the first axis
PyLen(x) == IF x.rows > 0 THEN x.rows ELSE x.n

\* Mutant: len(x) whatever the dimension.
WindowSize_len(x) == PyLen(x)

\* len(x[0]) if x.dim() == 2 else len(x)
WindowSize(x) == IF Dim(x) = 2 THEN x.n ELSE PyLen(x)

\* Number of elements np.append adds: the chunk flattened.
NumElements(x) == IF x.rows > 0 THEN x.rows * x.n ELSE x.n

\* Mutant: no margin below the threshold.
LowerThreshold_none == threshold

\* self.threshold - 0.15
LowerThreshold == threshold - Margin

\* Mutant: the padding added to the start instead of subtracted.
SpeechStart_plus(self) == self.current_sample * Milli + speech_pad_samples

\* self.current_sample - self.speech_pad_samples (thousandths)
SpeechStart(self) == self.current_sample * Milli - speech_pad_samples

\* Mutant: the padding subtracted from the end instead of added.
SpeechEnd_minus(self) == self.temp_end * Milli - speech_pad_samples

\* self.temp_end + self.speech_pad_samples (thousandths)
SpeechEnd(self) == self.temp_end * Milli + speech_pad_samples

\* Mutant: the comparison of line 93 taken as <=.
SilenceTooShort_le(self) ==
    (self.current_sample - self.temp_end) * Milli <= min_silence_samples

\* self.current_sample - self.temp_end < self.min_silence_samples
SilenceTooShort(self) ==
    (self.current_sample - self.temp_end) * Milli < min_silence_samples

\* Mutant: reset_states forgets self.temp_end.
VADIterator_reset_states_keeps_temp_end(self) ==
    [self EXCEPT !.triggered = FALSE, !.current_sample = 0]

\* Mutant: reset_states forgets self.triggered.
VADIterator_reset_states_keeps_triggered(self) ==
    [self EXCEPT !.temp_end = 0, !.current_sample = 0]

\* VADIterator.reset_states
VADIterator_reset_states(self) ==
    [self EXCEPT !.triggered = FALSE, !.temp_end = 0, !.current_sample = 0]

\* Mutant: the override does not clear the buffer.
FixedVADIterator_reset_states_keeps_buffer(self) ==
    VADIterator_reset_states(self)

\* FixedVADIterator.reset_states
FixedVADIterator_reset_states(self) ==
    [VADIterator_reset_states(self) EXCEPT !.buffer = EmptyBuffer]

\* reset_states as dispatched on the instance's class
reset_states(self) ==
    IF cls = "FixedVADIterator"
    THEN FixedVADIterator_reset_states(self)
    ELSE VADIterator_reset_states(self)

\* Mutant: the counter advances before the coercion is tried.
Ingest_counts_first(self, x) ==
    [raised |-> ~Castable(x),
     self |-> [self EXCEPT !.current_sample = @ + WindowSize(x)]]

\* Lines 71-78: coercion, then the sample counter advances by the window.
\* raised = the TypeError of line 75 left the call.
Ingest(self, x) ==
    IF ~Castable(x)
    THEN [raised |-> TRUE, self |-> self]
    ELSE [raised |-> FALSE,
          self |-> [self EXCEPT !.current_sample = @ + WindowSize(x)]]

\* Mutant: lines 82-83 missing.
CancelPendingEnd_never(self, p) == self

\* Lines 82-83: a chunk at or above the threshold drops a pending end.
CancelPendingEnd(self, p) ==
    IF p >= threshold /\ Truthy(self.temp_end)
    THEN [self EXCEPT !.temp_end = 0]
    ELSE self

\* Mutant: lines 91-92 missing.
MarkTempEnd_never(self) == self

\* Lines 91-92: the first low chunk marks the tentative end.
MarkTempEnd(self) ==
    IF ~Truthy(self.temp_end)
    THEN [self EXCEPT !.temp_end = self.current_sample]
    ELSE self

\* Lines 82-101, p the scorer's result for this chunk.
Hysteresis(self, p, return_seconds, up) ==
    LET s1 == CancelPendingEnd(self, p)
    IN  IF p >= threshold /\ ~s1.triggered
        THEN [self |-> [s1 EXCEPT !.triggered = TRUE],
              ret |-> Event("start", SpeechStart(s1), return_seconds, up)]
        ELSE IF p < LowerThreshold /\ s1.triggered
        THEN LET s2 == MarkTempEnd(s1)
             IN  IF SilenceTooShort(s2)
                 THEN [self |-> s2, ret |-> None]
                 ELSE [self |-> [s2 EXCEPT !.temp_end = 0, !.triggered = FALSE],
                       ret |-> Event("end", SpeechEnd(s2), return_seconds, up)]
        ELSE [self |-> s1, ret |-> None]

\* VADIterator.__call__.  scored = samples handed to self.model (0: not called).
VADIterator_call(self, x, p, return_seconds, up) ==
    LET i == Ingest(self, x)
    IN  IF i.raised
        THEN [self |-> i.self, ret |-> TypeError, scored |-> 0]
        ELSE LET h == Hysteresis(i.self, p, return_seconds, up)
             IN  [self |-> h.self, ret |-> h.ret, scored |-> WindowSize(x)]

\* Line 114: np.append(self.buffer, x)
np_append(buf, x) == [len |-> buf.len + NumElements(x), ok |-> buf.ok /\ x.ok]

\* Mutant: the comparison of line 115 taken as >.
BufferFull_gt(buf) == buf.len > MinChunk

\* Line 115
BufferFull(buf) == buf.len >= MinChunk

\* Mutant: only the first MinChunk samples are handed on.
AsChunk_first(buf) == [ok |-> buf.ok, rows |-> 0, n |-> MinChunk]

\* The accumulated buffer as the chunk handed to VADIterator.__call__ (1-D).
AsChunk(buf) == [ok |-> buf.ok, rows |-> 0, n |-> buf.len]

\* Line 117, reached only when the forwarded call returned.
Flush(buf) == EmptyBuffer

\* FixedVADIterator.__call__.  forwarded = super().__call__ was called, with
\* given samples, and gave back inner (None when it was not called).
FixedVADIterator_call(self, x, p, return_seconds, up) ==
    LET b == np_append(self.buffer, x)
        s0 == [self EXCEPT !.buffer = b]
    IN  IF BufferFull(b)
        THEN LET r == VADIterator_call(s0, AsChunk(b), p, return_seconds, up)
             IN  IF r.ret = TypeError
                 THEN [self |-> r.self, ret |-> TypeError, scored |-> 0,
                       forwarded |-> TRUE, given |-> b.len, inner |-> r.ret]
                 ELSE [self |-> [r.self EXCEPT !.buffer = Flush(b)], ret |-> r.ret,
                       scored |-> r.scored, forwarded |-> TRUE, given |-> b.len,
                       inner |-> r.ret]
        ELSE [self |-> s0, ret |-> None, scored |-> 0,
              forwarded |-> FALSE, given |-> 0, inner |-> None]

\* ------------------------------------------------------------------ history
NoProb == 0 - 1

IdleRun == [phase |-> "idle", total |-> 0, first |-> 0, ends |-> 0, high_at |-> 0]

\* The run of consecutive scored chunks below the lower threshold that
\* directly follows a chunk at or above the threshold: total = their samples,
\* first = the samples of the first of them, ends = End events returned in
\* the run; high_at = current_sample after the latest chunk at or above the
\* threshold.  n is the scored chunk's length, cs the counter after the call.
RunAfter(r, p, n, ret, cs) ==
    LET e == IF ret.kind = "end" THEN 1 ELSE 0
    IN  IF p >= threshold
        THEN [phase |-> "high", total |-> 0, first |-> 0, ends |-> 0, high_at |-> cs]
        ELSE IF p < threshold - Margin
        THEN IF r.phase = "high"
             THEN [r EXCEPT !.phase = "low", !.total = n, !.first = n, !.ends = e]
             ELSE IF r.phase = "low"
             THEN [r EXCEPT !.total = @ + n, !.ends = @ + e]
             ELSE r
        ELSE [r EXCEPT !.phase = "idle", !.total = 0, !.first = 0, !.ends = 0]

\* A sample index that is not one: "unset".
Unset == 0 - 1

NoSilence == [from |-> Unset, ended |-> FALSE]

\* The silence of the open segment (a Start was returned and no End since):
\* from = current_sample right after the first chunk below the lower
\* threshold since the segment's latest chunk at or above the threshold;
\* ended = the last such chunk returned the End.  open = a segment was open
\* before the call, cs the counter after it.
SilenceAfter(s, open, p, ret, cs) ==
    IF p >= threshold
    THEN NoSilence
    ELSE IF p < threshold - Margin /\ open
    THEN [from |-> IF s.from = Unset \/ s.ended THEN cs ELSE s.from,
          ended |-> ret.kind = "end"]
    ELSE s

\* The Segmenter of the specification (section 4.1): temp_end is a sample
\* index or Unset, at most one branch of the hysteresis logic fires per
\* call, and the chunk that marks the tentative end returns nothing.
\* pos = the event's position before conversion (thousandths of a sample).
SpecFresh ==
    [triggered |-> FALSE, temp_end |-> Unset, current_sample |-> 0,
     kind |-> "none", pos |-> 0]

SpecProcess(s, n, p) ==
    LET cs == s.current_sample + n
        t == [s EXCEPT !.current_sample = cs, !.kind = "none", !.pos = 0]
    IN  IF p >= threshold /\ s.temp_end # Unset
        THEN [t EXCEPT !.temp_end = Unset]
        ELSE IF p >= threshold /\ ~s.triggered
        THEN [t EXCEPT !.triggered = TRUE, !.kind = "start",
                       !.pos = cs * Milli - speech_pad_samples]
        ELSE IF p < threshold - Margin /\ s.triggered
        THEN IF s.temp_end = Unset
             THEN [t EXCEPT !.temp_end = cs]
             ELSE IF (cs - s.temp_end) * Milli < min_silence_samples
             THEN t
             ELSE [t EXCEPT !.temp_end = Unset, !.triggered = FALSE,
                            !.kind = "end",
                            !.pos = s.temp_end * Milli + speech_pad_samples]
        ELSE t

\* What one call did: the instance afterwards, the value returned (or the
\* exception), whether the chunk was castable, the samples supplied, whether VADIterator.__call__
\* ran, with how many samples, and what it gave back, and the scorer's input
\* size and result (NoProb when the scorer was not called).
Outcome(x, p, r, forwarded, given, inner) ==
    [self |-> r.self, ret |-> r.ret, ok |-> x.ok, size |-> NumElements(x),
     forwarded |-> forwarded, given |-> given, inner |-> inner,
     scored |-> r.scored, p |-> IF r.scored > 0 THEN p ELSE NoProb]

VADOutcome(x, p, return_seconds, up) ==
    LET r == VADIterator_call(Self, x, p, return_seconds, up)
    IN  Outcome(x, p, r, TRUE, x.n, r.ret)

FixedOutcome(x, p, return_seconds, up) ==
    LET r == FixedVADIterator_call(Self, x, p, return_seconds, up)
    IN  Outcome(x, p, r, r.forwarded, r.given, r.inner)

\* ------------------------------------------------------------------ actions
\* __init__: configuration, the check of the sampling rate, derived sample
\* counts, then self.reset_states().  When the check raises there is no
\* instance: constructed is FALSE, no operation applies and the remaining
\* variables are placeholders.
Init ==
    /\ cls \in Classes
    /\ threshold \in Thresholds
    /\ sampling_rate \in SamplingRates
    /\ constructed = Supported(sampling_rate)
    /\ IF constructed
       THEN /\ \E ms \in SilenceMs : min_silence_samples = sampling_rate * ms
            /\ \E ms \in PadMs : speech_pad_samples = sampling_rate * ms
       ELSE /\ min_silence_samples = 0
            /\ speech_pad_samples = 0
    /\ triggered = FALSE
    /\ temp_end = 0
    /\ current_sample = 0
    /\ buffer = EmptyBuffer
    /\ events = <<>>
    /\ supplied = 0
    /\ fed = 0
    /\ run = IdleRun
    /\ last = [op |-> "init", pre |-> Self, ret |-> None, ok |-> TRUE, size |-> 0,
               forwarded |-> FALSE, given |-> 0, inner |-> None,
               scored |-> 0, p |-> NoProb]
    /\ failed = FALSE
    /\ silence = NoSilence
    /\ spec_sm = SpecFresh

Accepts(x) ==
    /\ constructed
    /\ current_sample + buffer.len + NumElements(x) <= MaxSupplied
    /\ Len(events) < MaxEvents

\* The state and history after a call with outcome o.
Returned(o) ==
    /\ triggered' = o.self.triggered
    /\ temp_end' = o.self.temp_end
    /\ current_sample' = o.self.current_sample
    /\ buffer' = o.self.buffer
    /\ events' = IF IsEvent(o.ret) THEN Append(events, o.ret) ELSE events
    /\ supplied' = IF o.ret = TypeError THEN supplied ELSE supplied + o.size
    /\ fed' = IF o.forwarded /\ o.inner # TypeError THEN fed + o.given ELSE fed
    /\ run' = IF o.scored > 0
              THEN RunAfter(run, o.p, o.scored, o.ret, o.self.current_sample)
              ELSE run
    /\ last' = [op |-> "call", pre |-> Self, ret |-> o.ret, ok |-> o.ok, size |-> o.size,
                forwarded |-> o.forwarded, given |-> o.given, inner |-> o.inner,
                scored |-> o.scored, p |-> o.p]
    /\ failed' = (failed \/ (cls = "FixedVADIterator" /\ o.ret = TypeError))
    /\ silence' = IF o.scored > 0
                  THEN SilenceAfter(silence, Len(events) % 2 = 1, o.p, o.ret,
                                    o.self.current_sample)
                  ELSE silence
    /\ spec_sm' = IF o.scored > 0
                  THEN SpecProcess(spec_sm, o.scored, o.p)
                  ELSE spec_sm
    /\ UNCHANGED cfgvars

\* A call on a VADIterator instance.
VADCall ==
    /\ cls = "VADIterator"
    /\ \E x \in Chunks :
        /\ Accepts(x)
        /\ \E o \in {VADOutcome(x, p, rs, up) :
                        p \in Probs, rs \in BOOLEAN, up \in BOOLEAN} :
              Returned(o)

\* A call on a FixedVADIterator instance.
FixedCall ==
    /\ cls = "FixedVADIterator"
    /\ \E x \in Chunks :
        /\ Accepts(x)
        /\ \E o \in {FixedOutcome(x, p, rs, up) :
                        p \in Probs, rs \in BOOLEAN, up \in BOOLEAN} :
              Returned(o)

\* reset_states() called by the user of the instance.
Reset ==
    /\ constructed
    /\ LET s == reset_states(Self)
       IN  /\ triggered' = s.triggered
           /\ temp_end' = s.temp_end
           /\ current_sample' = s.current_sample
           /\ buffer' = s.buffer
    /\ events' = <<>>
    /\ supplied' = 0
    /\ fed' = 0
    /\ run' = IdleRun
    /\ last' = [op |-> "reset", pre |-> Self, ret |-> None, ok |-> TRUE, size |-> 0,
                forwarded |-> FALSE, given |-> 0, inner |-> None,
                scored |-> 0, p |-> NoProb]
    /\ failed' = FALSE
    /\ silence' = NoSilence
    /\ spec_sm' = SpecFresh
    /\ UNCHANGED cfgvars

Next == VADCall \/ FixedCall \/ Reset

Spec == Init /\ [][Next]_vars

\* ------------------------------------------------------------------ claims
IsCall == last.op = "call"
Scored == IsCall /\ last.scored > 0
Raised == IsCall /\ last.ret = TypeError
Fresh == [triggered |-> FALSE, temp_end |-> 0, current_sample |-> 0,
          buffer |-> EmptyBuffer]

\* C1 as stated: in a run of chunks below threshold - 0.15 that follows a
\* chunk at or above the threshold, an End has been returned exactly when
\* the samples of the run's chunks, the first included, have reached
\* min_silence_samples.
C1_EndOnceLowSamplesReachMinSilence ==
    run.phase = "low" =>
        run.ends = IF run.total * Milli >= min_silence_samples THEN 1 ELSE 0

\* C1 amended: in such a run exactly one End is returned, on the first call
\* at which the samples of the run's chunks after the first one (that is,
\* current_sample - temp_end) reach min_silence_samples, none follows while
\* the probability stays low, and none is returned before that; so a run of
\* fewer than min_silence_samples samples returns no End.
C1_EndOnceSamplesAfterFirstLowChunkReachMinSilence ==
    run.phase = "low" =>
        /\ run.ends =
              IF (run.total - run.first) * Milli >= min_silence_samples
              THEN 1 ELSE 0
        /\ run.total * Milli < min_silence_samples => run.ends = 0

\* C1 witness: a run whose End was returned on a later chunk than its first,
\* and that went on with one more low chunk, which returned nothing.
C1_Witness ==
    /\ run.phase = "low"
    /\ run.ends = 1
    /\ min_silence_samples > 0
    /\ Scored /\ last.p < threshold - Margin
    /\ last.ret = None
    /\ ~last.pre.triggered

\* C2: a call returns a Start exactly when the scorer's probability is at or
\* above the threshold and triggered was false before the call; triggered is
\* true afterwards and the position, in samples, is current_sample (this
\* chunk counted) minus speech_pad_samples, truncated toward zero.
C2_StartIffHighAndNotTriggered ==
    IsCall =>
        /\ (last.ret.kind = "start") <=>
              (last.scored > 0 /\ last.p >= threshold /\ ~last.pre.triggered)
        /\ last.ret.kind = "start" =>
              /\ triggered
              /\ current_sample = last.pre.current_sample + last.given
              /\ last.ret.unit = "samples" =>
                    LET d == current_sample * Milli - speech_pad_samples
                        v == last.ret.value
                    IN  IF d >= 0
                        THEN v * Milli <= d /\ d < (v + 1) * Milli
                        ELSE (v - 1) * Milli < d /\ d <= v * Milli

\* C2 witness: a Start returned in samples by a call that was not the first,
\* with a padding that is not zero.
C2_Witness ==
    /\ IsCall
    /\ last.ret.kind = "start"
    /\ last.ret.unit = "samples"
    /\ speech_pad_samples > 0
    /\ last.pre.current_sample > 0

\* C3: a chunk at or above the threshold that arrives while an end is
\* pending clears temp_end, returns no event and leaves triggered true; a
\* pending end never dates from before the latest such chunk, and an End is
\* returned only when min_silence_samples have passed since a temp_end set
\* after it.
C3_RecoveryCancelsPendingEnd ==
    /\ (Scored /\ last.p >= threshold /\ last.pre.temp_end # 0) =>
          /\ temp_end = 0
          /\ last.ret = None
          /\ last.pre.triggered /\ triggered
    /\ temp_end # 0 => temp_end > run.high_at
    /\ (IsCall /\ last.ret.kind = "end") =>
          LET te == IF last.pre.temp_end # 0
                    THEN last.pre.temp_end ELSE current_sample
          IN  /\ te > run.high_at
              /\ (current_sample - te) * Milli >= min_silence_samples

\* C3 witness: the cancelling call itself, after a dip that was pending.
C3_Witness ==
    /\ Scored
    /\ last.p >= threshold
    /\ last.pre.temp_end # 0
    /\ min_silence_samples > 0

\* C4: the events returned since the last reset alternate Start, End, ...
\* beginning with Start, and triggered is true exactly when the last of them
\* is a Start.
C4_EventsAlternate ==
    /\ \A i \in 1..Len(events) :
          events[i].kind = IF i % 2 = 1 THEN "start" ELSE "end"
    /\ triggered <=> Len(events) % 2 = 1

\* C4 witness: a second Start after a complete segment.
C4_Witness ==
    /\ Len(events) = 3
    /\ triggered
    /\ IsCall /\ last.ret.kind = "start"

\* C5: current_sample is the sum of the lengths of the chunks the Segmenter
\* processed since the last reset; each processed chunk adds exactly its
\* length and no call lowers the counter.
C5_CurrentSampleIsSumOfChunks ==
    /\ current_sample = fed
    /\ IsCall =>
          /\ current_sample >= last.pre.current_sample
          /\ (last.forwarded /\ last.inner # TypeError) =>
                current_sample = last.pre.current_sample + last.given

\* C5 witness: a Segmenter that processed several chunks and returned
\* events on the way.
C5_Witness ==
    /\ cls = "VADIterator"
    /\ fed >= 1024
    /\ Len(events) >= 2
    /\ IsCall /\ last.ret = None

\* C6: the Adapter forwards exactly when the buffer with the chunk appended
\* holds at least 512 samples; it then forwards the whole buffer as one
\* chunk, and when that call returns the buffer is empty and the Segmenter's
\* result is returned; otherwise it returns no event and triggered, temp_end
\* and current_sample are unchanged.  The scorer never gets fewer than 512
\* samples.
C6_AdapterForwardsIffBufferFull ==
    (cls = "FixedVADIterator" /\ IsCall) =>
        LET total == last.pre.buffer.len + last.size
        IN  /\ last.forwarded <=> total >= MinChunk
            /\ last.forwarded => last.given = total
            /\ (last.forwarded /\ ~Raised) =>
                  /\ buffer.len = 0
                  /\ last.ret = last.inner
                  /\ last.scored = total
                  /\ current_sample = last.pre.current_sample + total
            /\ ~last.forwarded =>
                  /\ last.ret = None
                  /\ triggered = last.pre.triggered
                  /\ temp_end = last.pre.temp_end
                  /\ current_sample = last.pre.current_sample
                  /\ buffer.len = total
            /\ last.scored > 0 => last.scored >= MinChunk

\* C6 witness: a call that completed a buffer of exactly 512 samples out of
\* two smaller chunks and returned the Segmenter's event.
C6_Witness ==
    /\ cls = "FixedVADIterator"
    /\ IsCall /\ last.forwarded
    /\ last.pre.buffer.len > 0
    /\ last.pre.buffer.len + last.size = MinChunk
    /\ IsEvent(last.ret)

\* C7 as stated: a flush of more than 512 buffered samples advances
\* current_sample by 512 only.
C7_FlushForwardsFirst512Only ==
    ( /\ cls = "FixedVADIterator"
      /\ IsCall /\ last.forwarded /\ ~Raised
      /\ last.pre.buffer.len + last.size > MinChunk ) =>
        current_sample = last.pre.current_sample + MinChunk

\* C7 amended: a flush of more than 512 buffered samples forwards all of
\* them to the Segmenter (current_sample advances by the whole buffer
\* length, the scorer gets them all) and carries nothing over.
C7_FlushForwardsWholeBuffer ==
    ( /\ cls = "FixedVADIterator"
      /\ IsCall /\ last.forwarded /\ ~Raised
      /\ last.pre.buffer.len + last.size > MinChunk ) =>
        /\ current_sample - last.pre.current_sample
              = last.pre.buffer.len + last.size
        /\ last.scored = current_sample - last.pre.current_sample
        /\ buffer = EmptyBuffer

\* C7 witness: a flush of 768 samples, 256 of them buffered before.
C7_Witness ==
    /\ cls = "FixedVADIterator"
    /\ IsCall /\ last.forwarded /\ ~Raised
    /\ last.pre.buffer.len = 256
    /\ last.size = 512

\* C8: after reset_states the instance is in the state construction leaves
\* (triggered false, temp_end unset, current_sample 0, the Adapter's buffer
\* empty), whatever happened before, and a second reset changes nothing.
C8_ResetRestoresInitialState ==
    last.op = "reset" =>
        /\ Self = Fresh
        /\ reset_states(Self) = Self

\* C8 witness: a reset of an Adapter that was triggered with an end pending
\* and samples in its buffer.
C8_Witness ==
    /\ last.op = "reset"
    /\ cls = "FixedVADIterator"
    /\ last.pre.triggered
    /\ last.pre.temp_end # 0
    /\ last.pre.buffer.len > 0

\* C9: a Segmenter call fails with the TypeError exactly when its chunk
\* cannot be made a tensor, and then triggered, temp_end and current_sample
\* are what they were before the call.
C9_SegmenterTypeErrorLeavesState ==
    (cls = "VADIterator" /\ IsCall) =>
        /\ Raised <=> ~last.ok
        /\ Raised =>
              /\ triggered = last.pre.triggered
              /\ temp_end = last.pre.temp_end
              /\ current_sample = last.pre.current_sample

\* C9 witness: a failed call on a triggered Segmenter with an end pending.
C9_Witness ==
    /\ cls = "VADIterator"
    /\ Raised
    /\ last.pre.triggered
    /\ last.pre.temp_end # 0

\* C10 as stated: when an Adapter call fails with the TypeError, triggered,
\* temp_end, current_sample and the buffer are what they were before the
\* call.
C10_AdapterTypeErrorLeavesState ==
    (cls = "FixedVADIterator" /\ Raised) => Self = last.pre

\* C11: __init__ yields an instance exactly for a sampling rate of 8000 or
\* 16000; the instance is then in the initial state (triggered false,
\* temp_end unset, current_sample 0, buffer empty), and after the
\* ValueError there is nothing an operation could act on.
C11_ConstructionChecksSamplingRate ==
    /\ constructed <=> sampling_rate \in {8000, 16000}
    /\ (constructed /\ last.op = "init") =>
          /\ Self = Fresh
          /\ min_silence_samples \in {sampling_rate * ms : ms \in SilenceMs}
          /\ speech_pad_samples \in {sampling_rate * ms : ms \in PadMs}
    /\ ~constructed => last.op = "init"

\* C11 witness: a construction with 44100 Hz that raised.
C11_Witness ==
    /\ ~constructed
    /\ sampling_rate = 44100
    /\ last.op = "init"

\* The last call was the first chunk below the lower threshold on a
\* triggered instance with no end pending.
FirstLowChunk ==
    /\ Scored
    /\ last.p < threshold - Margin
    /\ last.pre.triggered
    /\ last.pre.temp_end = 0

\* C12 as stated: the first chunk below threshold - 0.15 on a triggered
\* instance with temp_end unset sets temp_end to current_sample and returns
\* no event, whatever the configuration.
C12_FirstLowChunkReturnsNothing ==
    FirstLowChunk =>
        /\ temp_end = current_sample
        /\ last.ret = None

\* C12 amended: with min_silence_samples > 0 such a chunk sets temp_end to
\* current_sample, returns no event and leaves triggered true; with
\* min_silence_samples = 0 the same call returns the End, at current_sample
\* plus speech_pad_samples, and leaves temp_end unset and triggered false.
C12_FirstLowChunkMarksOrEndsAtOnce ==
    FirstLowChunk =>
        IF min_silence_samples > 0
        THEN /\ temp_end = current_sample
             /\ last.ret = None
             /\ triggered
        ELSE /\ last.ret.kind = "end"
             /\ last.ret.unit = "samples" =>
                   last.ret.value * Milli
                      = current_sample * Milli + speech_pad_samples
             /\ temp_end = 0
             /\ ~triggered

\* C12 witness: a first low chunk that only marked the tentative end.
C12_Witness ==
    /\ FirstLowChunk
    /\ min_silence_samples > 0
    /\ temp_end = current_sample
    /\ last.pre.current_sample > 0

\* C13: a call returns an End exactly when the probability is below
\* threshold - 0.15, triggered was true and current_sample - temp_end has
\* reached min_silence_samples; the position, in samples, is temp_end +
\* speech_pad_samples, temp_end being current_sample right after the first
\* low chunk of the silence that was not cancelled; afterwards temp_end is
\* unset and triggered false.
C13_EndIffSilenceConfirmed ==
    IsCall =>
        LET te == IF last.pre.temp_end # 0
                  THEN last.pre.temp_end ELSE current_sample
        IN  /\ (last.ret.kind = "end") <=>
                  /\ last.scored > 0
                  /\ last.p < threshold - Margin
                  /\ last.pre.triggered
                  /\ (current_sample - te) * Milli >= min_silence_samples
            /\ last.ret.kind = "end" =>
                  /\ temp_end = 0
                  /\ ~triggered
                  /\ silence.ended
                  /\ te = silence.from
                  /\ last.ret.unit = "samples" =>
                        LET d == silence.from * Milli + speech_pad_samples
                            v == last.ret.value
                        IN  v * Milli <= d /\ d < (v + 1) * Milli

\* C13 witness: an End in samples, with padding, for a silence marked by an
\* earlier call.
C13_Witness ==
    /\ IsCall
    /\ last.ret.kind = "end"
    /\ last.ret.unit = "samples"
    /\ last.pre.temp_end # 0
    /\ speech_pad_samples > 0

\* What the last call did to the instance, read off the states around it.
PendingEndCancelled ==
    last.pre.temp_end # 0 /\ temp_end = 0 /\ last.ret.kind # "end"
SegmentStarted == ~last.pre.triggered /\ triggered
SilenceHandled ==
    \/ last.pre.temp_end = 0 /\ temp_end # 0
    \/ last.ret.kind = "end"

\* C14: in a call at most one of the three hysteresis branches takes effect
\* (a pending end cancelled, a segment started, silence marked or
\* confirmed); no call meets both the condition of the cancel step and that
\* of the start step.
C14_AtMostOneBranchFires ==
    Scored =>
        /\ ~(PendingEndCancelled /\ SegmentStarted)
        /\ ~(PendingEndCancelled /\ SilenceHandled)
        /\ ~(SegmentStarted /\ SilenceHandled)
        /\ ~(/\ last.p >= threshold
             /\ last.pre.temp_end # 0
             /\ ~last.pre.triggered)
        /\ (last.ret.kind = "start") = SegmentStarted

\* C14 witness: a call at or above the threshold with an end pending: the
\* cancel step fired and the start step did not.
C14_Witness ==
    /\ Scored
    /\ PendingEndCancelled
    /\ last.p >= threshold
    /\ last.ret = None
    /\ Len(events) = 1

\* The last call was one on which no branch applies.
NoBranchApplies ==
    /\ Scored
    /\ \/ last.p >= threshold - Margin /\ last.p < threshold
       \/ last.p >= threshold /\ last.pre.triggered /\ last.pre.temp_end = 0
       \/ last.p < threshold - Margin /\ ~last.pre.triggered

\* C15: a call on which no branch applies (probability in
\* [threshold - 0.15, threshold); at or above the threshold while triggered
\* with no end pending; below threshold - 0.15 while not triggered) returns
\* no event and leaves triggered and temp_end as they were; only
\* current_sample advances, by the chunk's length.
C15_NoBranchLeavesState ==
    NoBranchApplies =>
        /\ last.ret = None
        /\ triggered = last.pre.triggered
        /\ temp_end = last.pre.temp_end
        /\ current_sample = last.pre.current_sample + last.given

\* C15 witness: a mid-band chunk while an end is pending.
C15_Witness ==
    /\ Scored
    /\ last.p >= threshold - Margin /\ last.p < threshold
    /\ last.pre.temp_end # 0
    /\ temp_end = last.pre.temp_end

\* C16: temp_end, when set, is at most current_sample, and equals it on the
\* call that sets it.
C16_TempEndAtMostCurrentSample ==
    /\ temp_end # 0 => temp_end <= current_sample
    /\ (Scored /\ last.pre.temp_end = 0 /\ temp_end # 0) =>
          temp_end = current_sample

\* C16 witness: an end pending since before the last chunk.
C16_Witness ==
    /\ temp_end # 0
    /\ temp_end < current_sample
    /\ Scored

\* C17: while triggered is false temp_end is unset.
C17_TempEndOnlyWhileTriggered ==
    ~triggered => temp_end = 0

\* C17 witness: a reset of an instance that had an end pending.
C17_Witness ==
    /\ last.op = "reset"
    /\ last.pre.temp_end # 0
    /\ ~triggered

\* The implementation and the specification's machine agree: same triggered
\* and current_sample, temp_end set in one exactly when set in the other
\* (and then equal), and the last processed chunk returned the same event
\* at the same position.
AgreesWithSpec ==
    /\ spec_sm.triggered = triggered
    /\ spec_sm.current_sample = current_sample
    /\ (spec_sm.temp_end = Unset) <=> (temp_end = 0)
    /\ temp_end # 0 => spec_sm.temp_end = temp_end
    /\ Scored =>
          /\ spec_sm.kind = last.ret.kind
          /\ (IsEvent(last.ret) /\ last.ret.unit = "samples") =>
                last.ret.value = PyInt(spec_sm.pos)

\* C18 as stated: for chunks of positive length the implementation, which
\* keeps "unset" as 0, returns the same events on the same calls and passes
\* through the same states as the specification's machine with its distinct
\* unset value, whatever the configuration.
C18_ImplementationAgreesWithSpec ==
    AgreesWithSpec

\* C18 amended: they agree for every configuration with
\* min_silence_samples > 0.  (With min_silence_samples = 0 the
\* implementation returns the End on the chunk that marks the tentative end,
\* where the specification's machine returns nothing on that chunk.)
C18_ImplementationAgreesWithSpecForPositiveMinSilence ==
    min_silence_samples > 0 => AgreesWithSpec

\* C18 witness: both machines returned an End for a silence that had been
\* pending over more than one chunk.
C18_Witness ==
    /\ min_silence_samples > 0
    /\ Scored
    /\ last.ret.kind = "end"
    /\ spec_sm.kind = "end"
    /\ last.pre.temp_end # 0
    /\ last.pre.temp_end < last.pre.current_sample

\* C19: for the Adapter, as long as no call raised since the last reset,
\* current_sample plus the buffer length is the number of samples supplied,
\* and the buffer holds fewer than 512 samples between calls.
C19_AdapterAccountsForEverySample ==
    (cls = "FixedVADIterator" /\ ~failed) =>
        /\ current_sample + buffer.len = supplied
        /\ buffer.len < MinChunk

\* C19 witness: an Adapter that flushed more than 512 samples at once and
\* is buffering again.
C19_Witness ==
    /\ cls = "FixedVADIterator"
    /\ ~failed
    /\ buffer.len > 0
    /\ current_sample % MinChunk # 0
    /\ supplied > 2 * MinChunk

\* Events i and i+1 are in the same unit and in order of position.
InOrder(i) ==
    events[i].unit = events[i + 1].unit =>
        events[i].value <= events[i + 1].value

\* C20 as stated: for every configuration the positions of the events
\* returned since the last reset are non-decreasing (each End at or after
\* its Start, each Start at or after the preceding End), and an End's
\* position is at most current_sample on the call that returns it.
C20_PositionsNonDecreasing ==
    /\ \A i \in 1..(Len(events) - 1) : InOrder(i)
    /\ (IsCall /\ last.ret.kind = "end" /\ last.ret.unit = "samples") =>
          last.ret.value <= current_sample

\* C20 amended: each End is at or after its Start for every configuration;
\* when min_silence_samples >= 2 * speech_pad_samples each Start is also at
\* or after the preceding End and an End's position is at most
\* current_sample on the call that returns it.
C20_PositionsNonDecreasingWhenPadFitsSilence ==
    /\ \A i \in 1..(Len(events) - 1) : i % 2 = 1 => InOrder(i)
    /\ min_silence_samples >= 2 * speech_pad_samples =>
          /\ \A i \in 1..(Len(events) - 1) : InOrder(i)
          /\ (IsCall /\ last.ret.kind = "end" /\ last.ret.unit = "samples") =>
                last.ret.value <= current_sample

\* C20 witness: Start, End, Start in samples with a padding that is not
\* zero and fits the minimum silence.
C20_Witness ==
    /\ Len(events) = 3
    /\ \A i \in 1..3 : events[i].unit = "samples"
    /\ speech_pad_samples > 0
    /\ min_silence_samples >= 2 * speech_pad_samples
    /\ events[1].value < events[2].value
    /\ events[2].value < events[3].value

====
